---- MODULE Spec2Model ----
(***************************************************************************)
(* Generic finite-state-machine engine (package finiteautomation):         *)
(* FSMConfig / AddTransition, validateAndBuildLookupSets, NewFSM and the   *)
(* FSM methods Reset, Transition, Process, Execute, IsInFinalState.        *)
(*                                                                         *)
(* One client owns one FSMConfig value `cfg` and at most one engine `fsm`. *)
(* Go maps are reference values: the engine's copy of the configuration    *)
(* holds the same map object as the client's, so the map object lives in   *)
(* `heap` and both configurations hold a reference to it.                  *)
(***************************************************************************)
EXTENDS Integers, Sequences, FiniteSets, TLC

VARIABLES
    cfg,    \* the client's FSMConfig value
    heap,   \* contents of the one map object a Transitions field can refer to
    fsm,    \* the engine (*FSM), ptr = "nil" while none has been built
    last,   \* the last call made: operation, arguments, returned values
    pre,    \* the engine as it was when the last call started
    held    \* the slice a caller got from StateHistory and still holds

vars == <<cfg, heap, fsm, last, pre, held>>

----------------------------------------------------------------------------
\* Bounds of the model.

\* longest state history the model lets an engine grow: a call that would
\* leave a longer one is not made
MaxHist == 3
\* longest input sequence handed to Process / Execute
MaxInputs == 2

\* The client-chosen domains of State and Input values.
StateU == {"A", "B"}
InputU == {"x", "y"}

\* Go zero values / absent arguments.
ZeroState == "zero"
NoInput == "none"
NoPos == -1

\* A Transitions field is the nil map or a reference to the map object.
NilRef == "nil"
MapRef == "m1"

Range(s) == {s[i] : i \in DOMAIN s}

EmptyMap == [k \in {} |-> k]

\* m[k] = v on a Go map
MapPut(m, k, v) == [x \in (DOMAIN m) \cup {k} |-> IF x = k THEN v ELSE m[x]]

\* The map a Transitions reference denotes (ranging over or indexing a nil
\* map behaves as the empty map).
Deref(ref) == IF ref = NilRef THEN EmptyMap ELSE heap

\* Input sequences a caller may pass.
RECURSIVE SeqsUpTo(_, _)
SeqsUpTo(S, n) ==
    IF n = 0 THEN {<<>>}
    ELSE LET shorter == SeqsUpTo(S, n - 1)
         IN shorter \cup {Append(s, x) : s \in {t \in shorter : Len(t) = n - 1}, x \in S}

InputSeqs == SeqsUpTo(InputU, MaxInputs)

----------------------------------------------------------------------------
\* Errors: the sentinel an error wraps (errors.Is), and what its text carries.

Err(kind, pos, state, input) ==
    [kind |-> kind, pos |-> pos, state |-> state, input |-> input, text |-> ""]

NoErr == Err("nil", NoPos, ZeroState, NoInput)

\* A validation error is written <<sentinel, message format>>.
NoMsg == <<"nil", "">>

ConfigErr(msg) ==
    [Err(msg[1], NoPos, ZeroState, NoInput) EXCEPT !.text = msg[2]]

----------------------------------------------------------------------------
\* FSMConfig

ZeroConfig ==
    [States |-> <<>>, Alphabet |-> <<>>, InitialState |-> ZeroState,
     FinalStates |-> <<>>, Transitions |-> NilRef]

\* The map object after cfg.AddTransition(from, input, to): a nil map is
\* allocated, a missing inner map is allocated, the entry is (over)written.
AddTransition(table, from, input, to) ==
    LET inner == IF from \in DOMAIN table THEN table[from] ELSE EmptyMap
    IN MapPut(table, from, MapPut(inner, input, to))

----------------------------------------------------------------------------
\* validateAndBuildLookupSets

\* A validation loop that forgets the destination-state check.
TransitionErrorsNoDest(stateSet, alphabetSet, table) ==
    LET undeclared == {from \in DOMAIN table : from \notin stateSet}
    IN {<<"ErrInvalidTransition", "from state">> : from \in undeclared}
       \cup {<<"ErrInvalidInput", "input not in alphabet">> :
                p \in {q \in (DOMAIN table \ undeclared) \X InputU :
                         q[2] \in DOMAIN table[q[1]] /\ q[2] \notin alphabetSet}}

\* Errors the loop over config.Transitions can return.  Go ranges over a map
\* in an unspecified order and the loop returns at the first defect it meets,
\* so any defective key, and in a declared key any defective entry, can be the
\* one reported.
TransitionErrors(stateSet, alphabetSet, table) ==
    LET undeclared == {from \in DOMAIN table : from \notin stateSet}
        entryErr(from, input) ==
            IF input \notin alphabetSet
            THEN <<"ErrInvalidInput", "input not in alphabet">>
            ELSE IF table[from][input] \notin stateSet
            THEN <<"ErrInvalidTransition", "to state">>
            ELSE NoMsg
    IN {<<"ErrInvalidTransition", "from state">> : from \in undeclared}
       \cup ({entryErr(p[1], p[2]) :
                p \in {q \in (DOMAIN table \ undeclared) \X InputU :
                         q[2] \in DOMAIN table[q[1]]}} \ {NoMsg})

\* A final-state check that returns the initial-state sentinel.
FinalStateErrorAsInitial(stateSet, finals) ==
    IF \E i \in DOMAIN finals : finals[i] \notin stateSet
    THEN <<"ErrInvalidInitial", "final state">> ELSE NoMsg

\* First final state not in the state set, if any (the slice is walked in order).
FinalStateError(stateSet, finals) ==
    IF \E i \in DOMAIN finals : finals[i] \notin stateSet
    THEN <<"ErrInvalidFinal", "final state">> ELSE NoMsg

\* The set of errors validation can return for a configuration
\* ({NoMsg} when it is accepted).
ValidationErrors(config, table) ==
    LET stateSet == Range(config.States)
        alphabetSet == Range(config.Alphabet)
    IN IF Len(config.States) = 0 THEN {<<"ErrNoStates", "">>}
       ELSE IF Len(config.Alphabet) = 0 THEN {<<"ErrNoAlphabet", "">>}
       ELSE IF config.InitialState \notin stateSet
            THEN {<<"ErrInvalidInitial", "">>}
       ELSE IF FinalStateError(stateSet, config.FinalStates) # NoMsg
            THEN {FinalStateError(stateSet, config.FinalStates)}
       ELSE IF TransitionErrors(stateSet, alphabetSet, table) # {}
            THEN TransitionErrors(stateSet, alphabetSet, table)
       ELSE {NoMsg}

\* validateAndBuildLookupSets returning error e.
validateAndBuildLookupSets(config, table, e) ==
    IF e = NoMsg
    THEN [alphabetSet |-> Range(config.Alphabet),
          finalStateSet |-> Range(config.FinalStates),
          err |-> NoErr]
    ELSE [alphabetSet |-> {}, finalStateSet |-> {}, err |-> ConfigErr(e)]

----------------------------------------------------------------------------
\* FSM

NilFSM ==
    [ptr |-> "nil", config |-> ZeroConfig, currentState |-> ZeroState,
     stateHistory |-> <<>>, alphabetSet |-> {}, finalStateSet |-> {}]

\* NewFSM(config) when validation returns v.
NewFSM(config, v) ==
    IF v.err.kind # "nil"
    THEN [fsm |-> NilFSM, err |-> v.err]
    ELSE [fsm |-> [ptr |-> "fsm",
                   config |-> config,
                   currentState |-> config.InitialState,
                   stateHistory |-> <<config.InitialState>>,
                   alphabetSet |-> v.alphabetSet,
                   finalStateSet |-> v.finalStateSet],
          err |-> NoErr]

\* A Reset that rebuilds the history before it restores the current state.
ResetStaleHistory(f) ==
    [f EXCEPT !.currentState = f.config.InitialState,
              !.stateHistory = <<f.currentState>>]

\* A Reset that restores the current state and keeps the old history.
ResetKeepsHistory(f) ==
    [f EXCEPT !.currentState = f.config.InitialState,
              !.stateHistory = Append(@, f.config.InitialState)]

Reset(f) ==
    [f EXCEPT !.currentState = f.config.InitialState,
              !.stateHistory = <<f.config.InitialState>>]

CurrentState(f) == f.currentState

\* A Transition that records the state it stays in when the symbol has no entry.
TransitionRecordsFailure(f, input) ==
    LET table == Deref(f.config.Transitions)
    IN IF f.currentState \notin DOMAIN table
       THEN [fsm |-> f,
             err |-> Err("ErrNoTransition", NoPos, f.currentState, NoInput)]
       ELSE IF input \notin DOMAIN table[f.currentState]
       THEN [fsm |-> [f EXCEPT !.stateHistory = Append(@, f.currentState)],
             err |-> Err("ErrNoTransition", NoPos, f.currentState, input)]
       ELSE LET nextState == table[f.currentState][input]
            IN [fsm |-> [f EXCEPT !.currentState = nextState,
                                  !.stateHistory = Append(@, nextState)],
                err |-> NoErr]

\* A Transition that moves without recording the move.
TransitionNoAppend(f, input) ==
    LET table == Deref(f.config.Transitions)
    IN IF f.currentState \notin DOMAIN table
       THEN [fsm |-> f,
             err |-> Err("ErrNoTransition", NoPos, f.currentState, NoInput)]
       ELSE IF input \notin DOMAIN table[f.currentState]
       THEN [fsm |-> f,
             err |-> Err("ErrNoTransition", NoPos, f.currentState, input)]
       ELSE [fsm |-> [f EXCEPT !.currentState = table[f.currentState][input]],
             err |-> NoErr]

\* A Transition that records the state it leaves instead of the one it enters.
TransitionAppendsSource(f, input) ==
    LET table == Deref(f.config.Transitions)
    IN IF f.currentState \notin DOMAIN table
       THEN [fsm |-> f,
             err |-> Err("ErrNoTransition", NoPos, f.currentState, NoInput)]
       ELSE IF input \notin DOMAIN table[f.currentState]
       THEN [fsm |-> f,
             err |-> Err("ErrNoTransition", NoPos, f.currentState, input)]
       ELSE [fsm |-> [f EXCEPT !.currentState = table[f.currentState][input],
                               !.stateHistory = Append(@, f.currentState)],
             err |-> NoErr]

Transition(f, input) ==
    LET table == Deref(f.config.Transitions)
    IN IF f.currentState \notin DOMAIN table
       THEN [fsm |-> f,
             err |-> Err("ErrNoTransition", NoPos, f.currentState, NoInput)]
       ELSE IF input \notin DOMAIN table[f.currentState]
       THEN [fsm |-> f,
             err |-> Err("ErrNoTransition", NoPos, f.currentState, input)]
       ELSE LET nextState == table[f.currentState][input]
            IN [fsm |-> [f EXCEPT !.currentState = nextState,
                                  !.stateHistory = Append(@, nextState)],
                err |-> NoErr]

\* A Process loop that skips a symbol without a transition and goes on,
\* reporting the first one skipped.
RECURSIVE ProcessFromSkipping(_, _, _)
ProcessFromSkipping(f, inputs, i) ==
    IF i > Len(inputs) THEN [fsm |-> f, err |-> NoErr]
    ELSE LET r == Transition(f, inputs[i])
             rest == ProcessFromSkipping(r.fsm, inputs, i + 1)
         IN IF r.err.kind # "nil"
            THEN [fsm |-> rest.fsm, err |-> [r.err EXCEPT !.pos = i - 1]]
            ELSE rest

\* The loop of Process from the i-th input (1-based here, i-1 in the code).
RECURSIVE ProcessFrom(_, _, _)
ProcessFrom(f, inputs, i) ==
    IF i > Len(inputs) THEN [fsm |-> f, err |-> NoErr]
    ELSE LET r == Transition(f, inputs[i])
         IN IF r.err.kind # "nil"
            THEN [fsm |-> r.fsm, err |-> [r.err EXCEPT !.pos = i - 1]]
            ELSE ProcessFrom(r.fsm, inputs, i + 1)

\* A Process that rolls the engine back when a symbol fails.
ProcessRollback(f, inputs) ==
    LET r == ProcessFrom(f, inputs, 1)
    IN IF r.err.kind # "nil" THEN [fsm |-> f, err |-> r.err] ELSE r

Process(f, inputs) == ProcessFrom(f, inputs, 1)

\* An Execute that continues from the current run state.
ExecuteNoReset(f, inputs) == Process(f, inputs)

Execute(f, inputs) == Process(Reset(f), inputs)

\* An IsInFinalState that takes "no final states declared" as "every state accepts".
IsInFinalStateEmptyAccepts(f) ==
    IF Cardinality(f.finalStateSet) = 0 THEN TRUE
    ELSE f.currentState \in f.finalStateSet

IsInFinalState(f) ==
    IF Cardinality(f.finalStateSet) = 0 THEN FALSE
    ELSE f.currentState \in f.finalStateSet

\* A slice value in a caller's hands: its elements, and whether it shares its
\* backing array with the engine's stateHistory.
Slice(shared, elems) == [shared |-> shared, elems |-> elems]

NoSlice == Slice(FALSE, <<>>)

\* The engine's stateHistory got a backing array of its own
\* (f.stateHistory = []S{...}): no slice handed out before shares it.
Reallocated(h) == [h EXCEPT !.shared = FALSE]

\* A StateHistory that returns the engine's own slice.
StateHistoryAlias(f) == Slice(TRUE, f.stateHistory)

\* make + copy: a new backing array holding the same elements.
StateHistory(f) == Slice(FALSE, f.stateHistory)

\* history[i] = s by the caller: the write lands in the engine's history too
\* when the array is shared and the engine's slice covers index i.
WriteThrough(f, h, i, s) ==
    IF h.shared /\ i <= Len(f.stateHistory)
    THEN [f EXCEPT !.stateHistory[i] = s]
    ELSE f

\* A ValidateInput that asks whether the current state has a transition on
\* the symbol.
ValidateInputByTransitions(f, input) ==
    LET table == Deref(f.config.Transitions)
    IN /\ f.currentState \in DOMAIN table
       /\ input \in DOMAIN table[f.currentState]

ValidateInput(f, input) == input \in f.alphabetSet

----------------------------------------------------------------------------
\* Calls

Call(op, input, inputs, err, ret) ==
    [op |-> op, input |-> input, inputs |-> inputs, err |-> err, ret |-> ret]

\* Configurations a client writes down before building an engine.
InitConfigs ==
    [States : {<<>>, <<"A">>, <<"A", "B">>},
     Alphabet : {<<>>, <<"x">>, <<"x", "y">>},
     InitialState : StateU,
     FinalStates : {<<>>, <<"B">>},
     Transitions : {NilRef, MapRef}]

\* Map literals a client writes for Transitions: the empty map, or a key whose
\* inner map is empty (AddTransition adds the entries).
InitMaps == {EmptyMap, [k \in {"B"} |-> EmptyMap]}

Init ==
    /\ cfg \in InitConfigs
    /\ heap \in IF cfg.Transitions = NilRef THEN {EmptyMap} ELSE InitMaps
    /\ fsm = NilFSM
    /\ pre = NilFSM
    /\ last = Call("init", NoInput, <<>>, NoErr, FALSE)
    /\ held = NoSlice

\* cfg.AddTransition(from, input, to), before or after an engine was built.
AddTransitionCall ==
    \E from \in StateU, input \in InputU, to \in StateU :
        /\ heap' = AddTransition(Deref(cfg.Transitions), from, input, to)
        /\ cfg' = [cfg EXCEPT !.Transitions = MapRef]
        /\ pre' = fsm
        /\ last' = Call("AddTransition", NoInput, <<>>, NoErr, FALSE)
        /\ UNCHANGED <<fsm, held>>

NewFSMCall ==
    /\ fsm.ptr = "nil"
    /\ \E e \in ValidationErrors(cfg, Deref(cfg.Transitions)) :
        LET r == NewFSM(cfg, validateAndBuildLookupSets(cfg, Deref(cfg.Transitions), e))
        IN /\ fsm' = r.fsm
           /\ last' = Call("NewFSM", NoInput, <<>>, r.err, FALSE)
    /\ pre' = fsm
    /\ held' = Reallocated(held)
    /\ UNCHANGED <<cfg, heap>>

ResetCall ==
    /\ fsm.ptr = "fsm"
    /\ fsm' = Reset(fsm)
    /\ pre' = fsm
    /\ last' = Call("Reset", NoInput, <<>>, NoErr, FALSE)
    /\ held' = Reallocated(held)
    /\ UNCHANGED <<cfg, heap>>

TransitionCall ==
    /\ fsm.ptr = "fsm"
    /\ \E input \in InputU :
        LET r == Transition(fsm, input)
        IN /\ Len(r.fsm.stateHistory) <= MaxHist
           /\ fsm' = r.fsm
           /\ last' = Call("Transition", input, <<>>, r.err, FALSE)
    /\ pre' = fsm
    /\ UNCHANGED <<cfg, heap, held>>

ProcessCall ==
    /\ fsm.ptr = "fsm"
    /\ \E inputs \in InputSeqs :
        /\ LET r == Process(fsm, inputs)
           IN /\ Len(r.fsm.stateHistory) <= MaxHist
              /\ fsm' = r.fsm
              /\ last' = Call("Process", NoInput, inputs, r.err, FALSE)
    /\ pre' = fsm
    /\ UNCHANGED <<cfg, heap, held>>

ExecuteCall ==
    /\ fsm.ptr = "fsm"
    /\ \E inputs \in InputSeqs :
        /\ LET r == Execute(fsm, inputs)
           IN /\ Len(r.fsm.stateHistory) <= MaxHist
              /\ fsm' = r.fsm
              /\ last' = Call("Execute", NoInput, inputs, r.err, FALSE)
    /\ pre' = fsm
    /\ held' = Reallocated(held)
    /\ UNCHANGED <<cfg, heap>>

IsInFinalStateCall ==
    /\ fsm.ptr = "fsm"
    /\ last' = Call("IsInFinalState", NoInput, <<>>, NoErr, IsInFinalState(fsm))
    /\ pre' = fsm
    /\ UNCHANGED <<cfg, heap, fsm, held>>

ValidateInputCall ==
    /\ fsm.ptr = "fsm"
    /\ \E input \in InputU :
        last' = Call("ValidateInput", input, <<>>, NoErr, ValidateInput(fsm, input))
    /\ pre' = fsm
    /\ UNCHANGED <<cfg, heap, fsm, held>>

Next ==
    \/ AddTransitionCall
    \/ NewFSMCall
    \/ ResetCall
    \/ TransitionCall
    \/ ProcessCall
    \/ ExecuteCall
    \/ IsInFinalStateCall
    \/ ValidateInputCall

Spec == Init /\ [][Next]_vars

----------------------------------------------------------------------------
\* A caller that keeps and changes the slice StateHistory returned.

\* The automaton of TestGenericFSM_StateHistory cut to two states, and one
\* with a partial relation.
HistoryTables ==
    {[s \in {"A", "B"} |->
        IF s = "A" THEN [i \in {"x", "y"} |-> IF i = "x" THEN "B" ELSE "A"]
                   ELSE [i \in {"x", "y"} |-> IF i = "x" THEN "A" ELSE "B"]],
     [s \in {"A"} |-> [i \in {"x"} |-> "B"]]}

InitHistory ==
    /\ cfg = [States |-> <<"A", "B">>, Alphabet |-> <<"x", "y">>,
              InitialState |-> "A", FinalStates |-> <<"B">>,
              Transitions |-> MapRef]
    /\ heap \in HistoryTables
    /\ fsm = NilFSM
    /\ pre = NilFSM
    /\ last = Call("init", NoInput, <<>>, NoErr, FALSE)
    /\ held = NoSlice

StateHistoryCall ==
    /\ fsm.ptr = "fsm"
    /\ held' = StateHistory(fsm)
    /\ last' = Call("StateHistory", NoInput, <<>>, NoErr, FALSE)
    /\ pre' = fsm
    /\ UNCHANGED <<cfg, heap, fsm>>

\* history[i] = s on the returned slice.
CallerWriteCall ==
    /\ fsm.ptr = "fsm"
    /\ \E i \in DOMAIN held.elems, s \in StateU :
        /\ held' = [held EXCEPT !.elems[i] = s]
        /\ fsm' = WriteThrough(fsm, held, i, s)
    /\ last' = Call("CallerWrite", NoInput, <<>>, NoErr, FALSE)
    /\ pre' = fsm
    /\ UNCHANGED <<cfg, heap>>

\* history = append(history, s) on the returned slice: with spare capacity the
\* element is written into the array right after the slice's last one.
CallerAppendCall ==
    /\ fsm.ptr = "fsm"
    /\ Len(held.elems) < MaxHist
    /\ \E s \in StateU :
        /\ held' = [held EXCEPT !.elems = Append(@, s)]
        /\ fsm' = WriteThrough(fsm, held, Len(held.elems) + 1, s)
    /\ last' = Call("CallerAppend", NoInput, <<>>, NoErr, FALSE)
    /\ pre' = fsm
    /\ UNCHANGED <<cfg, heap>>

NextHistory ==
    \/ NewFSMCall
    \/ ResetCall
    \/ TransitionCall
    \/ ProcessCall
    \/ ExecuteCall
    \/ StateHistoryCall
    \/ CallerWriteCall
    \/ CallerAppendCall

SpecHistory == InitHistory /\ [][NextHistory]_vars

----------------------------------------------------------------------------
\* The modulo-3 wrappers: examples/modthree (every state final) and the
\* top-level one (only remainder 0 final).  A Go string is the sequence of its
\* characters' code points.

\* longest binary string handed to a wrapper
MaxBits == 3

ModState0 == 0
ModState1 == 1
ModState2 == 2

\* '0' and '1'
Binary0 == 48
Binary1 == 49

\* Characters a caller's string is made of: '0', '1' and '2'.
CharU == {48, 49, 50}

BinaryStrings == SeqsUpTo(CharU, MaxBits)

ModThreeTable ==
    [s \in {ModState0, ModState1, ModState2} |->
        [b \in {Binary0, Binary1} |->
            IF s = ModState0 THEN (IF b = Binary0 THEN ModState0 ELSE ModState1)
            ELSE IF s = ModState1 THEN (IF b = Binary0 THEN ModState2 ELSE ModState0)
            ELSE (IF b = Binary0 THEN ModState1 ELSE ModState2)]]

\* examples/modthree: F = (S0, S1, S2)
ModThreeConfig ==
    [States |-> <<ModState0, ModState1, ModState2>>,
     Alphabet |-> <<Binary0, Binary1>>,
     InitialState |-> ModState0,
     FinalStates |-> <<ModState0, ModState1, ModState2>>,
     Transitions |-> MapRef]

\* top level: FinalStates = {ModState0}
MainModThreeConfig == [ModThreeConfig EXCEPT !.FinalStates = <<ModState0>>]

\* NewModThreeGeneric: the engine NewFSM builds for the hardcoded
\* configuration (it panics on an error, which validation never returns here).
NewModThreeGeneric(config) ==
    NewFSM(config, validateAndBuildLookupSets(config, ModThreeTable, NoMsg)).fsm

\* BinarySymbol(char): the same code point under another type.
BinarySymbol(char) == char

\* A ParseInput that hands every character on unchecked.
ParseInputUnchecked(f, binaryStr) ==
    IF binaryStr = <<>> \/ binaryStr = <<Binary0>>
    THEN [isNil |-> TRUE, inputs |-> <<>>, failed |-> FALSE, calls |-> {}]
    ELSE [isNil |-> FALSE,
          inputs |-> [i \in DOMAIN binaryStr |-> BinarySymbol(binaryStr[i])],
          failed |-> FALSE, calls |-> {}]

\* ParseInput (the same in both wrappers): nil for "" and "0", an error at the
\* first character ValidateInput refuses, else the symbols.
ParseInput(f, binaryStr) ==
    IF binaryStr = <<>> \/ binaryStr = <<Binary0>>
    THEN [isNil |-> TRUE, inputs |-> <<>>, failed |-> FALSE, calls |-> {}]
    ELSE IF \E i \in DOMAIN binaryStr : ~ValidateInput(f, BinarySymbol(binaryStr[i]))
    THEN [isNil |-> TRUE, inputs |-> <<>>, failed |-> TRUE,
          calls |-> {"ValidateInput"}]
    ELSE [isNil |-> FALSE,
          inputs |-> [i \in DOMAIN binaryStr |-> BinarySymbol(binaryStr[i])],
          failed |-> FALSE, calls |-> {"ValidateInput"}]

Answer(f, remainder, ok, calls) ==
    [fsm |-> f, remainder |-> remainder, ok |-> ok, calls |-> calls]

\* A ComputeModThree that runs the symbols from the current run state.
ComputeModThreeNoReset(f, binaryStr) ==
    LET p == ParseInput(f, binaryStr)
    IN IF p.failed THEN Answer(f, 0, FALSE, p.calls)
       ELSE IF p.isNil THEN Answer(f, 0, TRUE, p.calls)
       ELSE LET r == Process(f, p.inputs)
            IN IF r.err.kind # "nil"
               THEN Answer(r.fsm, 0, FALSE, p.calls \cup {"Execute"})
               ELSE Answer(r.fsm, CurrentState(r.fsm), TRUE,
                           p.calls \cup {"Execute", "CurrentState"})

\* examples/modthree ComputeModThree: (remainder, ok)
ComputeModThree(f, binaryStr) ==
    LET p == ParseInput(f, binaryStr)
    IN IF p.failed THEN Answer(f, 0, FALSE, p.calls)
       ELSE IF p.isNil THEN Answer(f, 0, TRUE, p.calls)
       ELSE LET r == Execute(f, p.inputs)
            IN IF r.err.kind # "nil"
               THEN Answer(r.fsm, 0, FALSE, p.calls \cup {"Execute"})
               ELSE Answer(r.fsm, CurrentState(r.fsm), TRUE,
                           p.calls \cup {"Execute", "CurrentState"})

\* examples/modthree IsDivisibleByThree: ok && remainder == 0, in field ok
IsDivisibleByThree(f, binaryStr) ==
    LET c == ComputeModThree(f, binaryStr)
    IN Answer(c.fsm, c.remainder, c.ok /\ c.remainder = 0, c.calls)

\* top-level IsDivisibleByThree: true once Execute returned no error
MainIsDivisibleByThree(f, binaryStr) ==
    LET p == ParseInput(f, binaryStr)
    IN IF p.failed THEN Answer(f, 0, FALSE, p.calls)
       ELSE IF p.isNil THEN Answer(f, 0, TRUE, p.calls)
       ELSE LET r == Execute(f, p.inputs)
            IN IF r.err.kind # "nil"
               THEN Answer(r.fsm, 0, FALSE, p.calls \cup {"Execute"})
               ELSE Answer(r.fsm, 0, TRUE, p.calls \cup {"Execute"})

WrapperCall(op, binaryStr, a) ==
    [op |-> op, binaryStr |-> binaryStr, remainder |-> a.remainder,
     ok |-> a.ok, calls |-> a.calls]

InitWrapper(config) ==
    /\ cfg = config
    /\ heap = ModThreeTable
    /\ fsm = NewModThreeGeneric(config)
    /\ pre = fsm
    /\ last = WrapperCall("NewModThreeGeneric", <<>>, Answer(fsm, 0, TRUE, {}))
    /\ held = NoSlice

InitModThree == InitWrapper(ModThreeConfig)

ParseInputCall ==
    \E b \in BinaryStrings :
        LET p == ParseInput(fsm, b)
        IN /\ last' = WrapperCall("ParseInput", b, Answer(fsm, 0, ~p.failed, p.calls))
           /\ pre' = fsm
           /\ UNCHANGED <<cfg, heap, fsm, held>>

ComputeModThreeCall ==
    \E b \in BinaryStrings :
        LET a == ComputeModThree(fsm, b)
        IN /\ fsm' = a.fsm
           /\ last' = WrapperCall("ComputeModThree", b, a)
           /\ pre' = fsm
           /\ held' = Reallocated(held)
           /\ UNCHANGED <<cfg, heap>>

IsDivisibleByThreeCall ==
    \E b \in BinaryStrings :
        LET a == IsDivisibleByThree(fsm, b)
        IN /\ fsm' = a.fsm
           /\ last' = WrapperCall("IsDivisibleByThree", b, a)
           /\ pre' = fsm
           /\ held' = Reallocated(held)
           /\ UNCHANGED <<cfg, heap>>

NextModThree ==
    \/ ParseInputCall
    \/ ComputeModThreeCall
    \/ IsDivisibleByThreeCall

SpecModThree == InitModThree /\ [][NextModThree]_vars

InitMainModThree == InitWrapper(MainModThreeConfig)

MainIsDivisibleByThreeCall ==
    \E b \in BinaryStrings :
        LET a == MainIsDivisibleByThree(fsm, b)
        IN /\ fsm' = a.fsm
           /\ last' = WrapperCall("IsDivisibleByThree", b, a)
           /\ pre' = fsm
           /\ held' = Reallocated(held)
           /\ UNCHANGED <<cfg, heap>>

NextMainModThree ==
    \/ ParseInputCall
    \/ MainIsDivisibleByThreeCall

SpecMainModThree == InitMainModThree /\ [][NextMainModThree]_vars

----------------------------------------------------------------------------
\* Vocabulary of the properties.

Running == fsm.ptr = "fsm"

\* The transition relation the engine consults.
EngineTable == Deref(fsm.config.Transitions)

\* The relation has an entry for (state, input).
HasEntry(table, state, input) ==
    /\ state \in DOMAIN table
    /\ input \in DOMAIN table[state]

Failed == last.err.kind # "nil"

\* The seven conditions on a configuration; a transition source state is a
\* key of the Transitions table, also one whose inner table is empty.
ValidConfig(config, table) ==
    /\ Len(config.States) > 0
    /\ Len(config.Alphabet) > 0
    /\ config.InitialState \in Range(config.States)
    /\ \A i \in DOMAIN config.FinalStates :
          config.FinalStates[i] \in Range(config.States)
    /\ \A from \in DOMAIN table : from \in Range(config.States)
    /\ \A from \in DOMAIN table : \A input \in DOMAIN table[from] :
          input \in Range(config.Alphabet)
    /\ \A from \in DOMAIN table : \A input \in DOMAIN table[from] :
          table[from][input] \in Range(config.States)

\* The run state of a freshly built engine of configuration f.config.
IsFresh(f) ==
    /\ f.currentState = f.config.InitialState
    /\ f.stateHistory = <<f.config.InitialState>>

\* Starting with history `before` in state `from`, history `after` records
\* exactly k transitions, taken on inputs[1..k] in order.
AppliedPrefix(table, before, from, after, inputs, k) ==
    LET n == Len(before)
        src(j) == IF j = 1 THEN from ELSE after[n + j - 1]
    IN /\ Len(after) = n + k
       /\ SubSeq(after, 1, n) = before
       /\ \A j \in 1..k :
             /\ HasEntry(table, src(j), inputs[j])
             /\ after[n + j] = table[src(j)][inputs[j]]

\* What a batch run from run state `start` on last.inputs must have produced:
\* the transitions before the first undefined one, in order, and nothing else.
BatchOutcome(start) ==
    LET inputs == last.inputs
        k == Len(fsm.stateHistory) - Len(start.stateHistory)
        reached == IF k = 0 THEN start.currentState
                   ELSE fsm.stateHistory[Len(fsm.stateHistory)]
    IN /\ k \in 0..Len(inputs)
       /\ AppliedPrefix(EngineTable, start.stateHistory, start.currentState,
                        fsm.stateHistory, inputs, k)
       /\ fsm.currentState = reached
       /\ fsm = [start EXCEPT !.currentState = fsm.currentState,
                              !.stateHistory = fsm.stateHistory]
       /\ Failed <=> k < Len(inputs)
       /\ Failed =>
             /\ last.err.kind = "ErrNoTransition"
             /\ last.err.pos = k
             /\ last.err.state = reached
             /\ ~HasEntry(EngineTable, reached, inputs[k + 1])

----------------------------------------------------------------------------
\* C1: NewFSM returns an engine exactly for the configurations that meet all
\* seven conditions (states and alphabet non-empty, initial and final states
\* declared, every transition's source, symbol and destination declared);
\* otherwise it returns an error and no engine.
C1_NewFSMAcceptsExactlyValid ==
    last.op = "NewFSM" =>
        /\ Running <=> ValidConfig(cfg, Deref(cfg.Transitions))
        /\ Running <=> ~Failed
        /\ ~Running => fsm = NilFSM
        /\ Running => /\ fsm.config = cfg
                      /\ fsm.alphabetSet = Range(cfg.Alphabet)
                      /\ fsm.finalStateSet = Range(cfg.FinalStates)

\* NewFSM rejected a configuration whose only defect is a transition to an
\* undeclared state.
C1_Witness ==
    /\ last.op = "NewFSM"
    /\ ~Running
    /\ Failed
    /\ cfg.States = <<"A">>
    /\ cfg.InitialState = "A"
    /\ cfg.FinalStates = <<>>
    /\ DOMAIN heap = {"A"}
    /\ DOMAIN heap["A"] = {"x"}
    /\ heap["A"]["x"] = "B"
    /\ cfg.Alphabet = <<"x">>

\* C2: a failing Transition leaves the engine exactly as it was (current
\* state, history and everything else), reports "no transition defined", and
\* the engine stays usable.
C2_FailedTransitionChangesNothing ==
    (last.op = "Transition" /\ Failed) =>
        /\ fsm = pre
        /\ Running
        /\ last.err.kind = "ErrNoTransition"
        /\ last.err.state = fsm.currentState

\* A Transition failed for a missing entry after the engine had moved.
C2_Witness ==
    /\ last.op = "Transition"
    /\ Failed
    /\ last.err.input = last.input
    /\ Len(pre.stateHistory) > 1

\* C3: Transition(symbol) succeeds exactly when the relation has an entry for
\* (current state, symbol); on success the current state is that entry's
\* destination and exactly that state is appended to the history.
C3_TransitionFollowsRelation ==
    last.op = "Transition" =>
        /\ ~Failed <=> HasEntry(EngineTable, pre.currentState, last.input)
        /\ ~Failed =>
              LET dest == EngineTable[pre.currentState][last.input]
              IN /\ fsm.currentState = dest
                 /\ fsm.stateHistory = Append(pre.stateHistory, dest)
                 /\ fsm = [pre EXCEPT !.currentState = dest,
                                      !.stateHistory = Append(@, dest)]

\* A Transition succeeded and changed the current state.
C3_Witness ==
    /\ last.op = "Transition"
    /\ ~Failed
    /\ fsm.currentState # pre.currentState
    /\ Len(fsm.stateHistory) = 3

\* C4: Process applies the symbols in order from the current run state, stops
\* at the first symbol without a transition, reports its zero-based position
\* with the no-transition error, keeps the transitions before it, and on an
\* empty sequence succeeds and changes nothing.
C4_ProcessStopsAtFirstFailure ==
    last.op = "Process" =>
        /\ BatchOutcome(pre)
        /\ last.inputs = <<>> => (~Failed /\ fsm = pre)

\* Process failed at position 1 after applying one transition, starting from
\* a run state that was not the reset one.
C4_Witness ==
    /\ last.op = "Process"
    /\ Failed
    /\ last.err.pos = 1
    /\ Len(pre.stateHistory) = 2
    /\ Len(fsm.stateHistory) = 3

\* C5 (as stated): when Process fails at position k the history has k+1
\* elements.
C5_Original ==
    (last.op = "Process" /\ Failed) =>
        Len(fsm.stateHistory) = last.err.pos + 1

\* C5 (amended): when Process fails at position k the history has k elements
\* more than before the call (k+1 when the call started from the reset run
\* state), and the current state is the one reached by the last of those k
\* transitions (the state before the call when k = 0).
C5_ProcessFailureKeepsPrefix ==
    (last.op = "Process" /\ Failed) =>
        LET k == last.err.pos
        IN /\ Len(fsm.stateHistory) = Len(pre.stateHistory) + k
           /\ IsFresh(pre) => Len(fsm.stateHistory) = k + 1
           /\ k = 0 => fsm.currentState = pre.currentState
           /\ k > 0 => fsm.currentState = fsm.stateHistory[Len(pre.stateHistory) + k]
           /\ SubSeq(fsm.stateHistory, 1, Len(pre.stateHistory)) = pre.stateHistory

\* Process failed at position 1 on an engine in its reset run state.
C5_Witness ==
    /\ last.op = "Process"
    /\ Failed
    /\ last.err.pos = 1
    /\ IsFresh(pre)
    /\ Len(fsm.stateHistory) = 2
    /\ fsm.currentState # pre.currentState

\* C6: Execute from any run state gives the result, current state and history
\* that Process gives on an engine in the run state NewFSM builds.
C6_ExecuteIsResetThenProcess ==
    last.op = "Execute" =>
        LET fresh == NewFSM(pre.config,
                            [alphabetSet |-> pre.alphabetSet,
                             finalStateSet |-> pre.finalStateSet,
                             err |-> NoErr]).fsm
        IN /\ BatchOutcome(fresh)
           /\ fsm = Process(fresh, last.inputs).fsm
           /\ last.err = Process(fresh, last.inputs).err

\* Execute ran on an engine that an earlier run had left away from the
\* initial state with a longer history.
C6_Witness ==
    /\ last.op = "Execute"
    /\ Len(pre.stateHistory) = 3
    /\ pre.currentState # pre.config.InitialState
    /\ Len(last.inputs) = 2
    /\ ~Failed

\* C7: after Execute succeeds on n symbols the history has n+1 elements, starts
\* with the initial state, and each next element is the destination of the
\* transition from the element before it on the corresponding symbol.
C7_ExecuteHistory ==
    (last.op = "Execute" /\ ~Failed) =>
        LET h == fsm.stateHistory
            n == Len(last.inputs)
        IN /\ Len(h) = n + 1
           /\ h[1] = cfg.InitialState
           /\ \A i \in 1..n :
                 /\ HasEntry(EngineTable, h[i], last.inputs[i])
                 /\ h[i + 1] = EngineTable[h[i]][last.inputs[i]]

\* Execute succeeded on two symbols, visiting another state, on an engine
\* with earlier history.
C7_Witness ==
    /\ last.op = "Execute"
    /\ ~Failed
    /\ Len(last.inputs) = 2
    /\ fsm.stateHistory[2] # fsm.stateHistory[1]
    /\ Len(pre.stateHistory) > 1

\* C8: right after a successful NewFSM and after every Reset the current
\* state is initialState and the history is <<initialState>>; a Reset of an
\* engine already in that run state changes nothing.
C8_ResetRestoresInitial ==
    ((last.op = "NewFSM" /\ Running) \/ last.op = "Reset") =>
        /\ Running
        /\ ~Failed
        /\ fsm.currentState = cfg.InitialState
        /\ fsm.stateHistory = <<cfg.InitialState>>
        /\ (last.op = "Reset") =>
              fsm = [pre EXCEPT !.currentState = cfg.InitialState,
                                !.stateHistory = <<cfg.InitialState>>]
        /\ (last.op = "Reset" /\ IsFresh(pre)) => fsm = pre

\* Reset ran on an engine away from the initial state with a longer history.
C8_Witness ==
    /\ last.op = "Reset"
    /\ Len(pre.stateHistory) = 3
    /\ pre.currentState # cfg.InitialState

\* C9 (as stated): whatever the client does to its configuration after
\* NewFSM, the current state and every history entry of the engine are
\* declared states.
C9_Original ==
    Running =>
        /\ fsm.currentState \in Range(fsm.config.States)
        /\ \A i \in DOMAIN fsm.stateHistory :
              fsm.stateHistory[i] \in Range(fsm.config.States)

\* C10: IsInFinalState() is true exactly when the current state is one of the
\* configuration's FinalStates (never when FinalStates is empty), and the call
\* changes no run state.
C10_IsInFinalState ==
    last.op = "IsInFinalState" =>
        /\ last.ret <=> (\E i \in DOMAIN cfg.FinalStates :
                            cfg.FinalStates[i] = fsm.currentState)
        /\ cfg.FinalStates = <<>> => ~last.ret
        /\ fsm = pre

\* IsInFinalState returned true after the engine had moved to a final state.
C10_Witness ==
    /\ last.op = "IsInFinalState"
    /\ last.ret
    /\ Len(fsm.stateHistory) > 1

\* C11: ValidateInput(symbol) is true exactly for the symbols of the declared
\* Alphabet, whatever the transitions, the current state and the history are,
\* and the call changes no run state.
C11_ValidateInput ==
    last.op = "ValidateInput" =>
        /\ last.ret <=> (\E i \in DOMAIN cfg.Alphabet : cfg.Alphabet[i] = last.input)
        /\ fsm = pre

\* ValidateInput returned true for a declared symbol that no transition uses,
\* on an engine that had moved.
C11_Witness ==
    /\ last.op = "ValidateInput"
    /\ last.ret
    /\ \A s \in DOMAIN EngineTable : last.input \notin DOMAIN EngineTable[s]
    /\ Len(fsm.stateHistory) > 1

\* C12: StateHistory() returns a copy: it holds the history at the time of the
\* call, nothing the caller does to it (overwriting or appending elements)
\* changes the engine, and no later engine operation changes it.
C12_StateHistoryIsCopy ==
    [][/\ last'.op = "StateHistory" =>
              (held'.elems = fsm.stateHistory /\ fsm' = fsm)
       /\ last'.op \in {"CallerWrite", "CallerAppend"} => fsm' = fsm
       /\ last'.op \in {"Reset", "Transition", "Process", "Execute"} =>
              held'.elems = held.elems]_vars

\* The caller overwrote an element of a returned history of three states
\* while the engine still had that history.
C12_Witness ==
    /\ last.op = "CallerWrite"
    /\ Len(held.elems) = 3
    /\ Len(fsm.stateHistory) = 3
    /\ held.elems # fsm.stateHistory

\* One configuration for each of the seven construction-time conditions, all
\* else being in order.
SoundConfig ==
    [States |-> <<"A">>, Alphabet |-> <<"x">>, InitialState |-> "A",
     FinalStates |-> <<>>, Transitions |-> MapRef]

DefectCases ==
    {[config |-> [SoundConfig EXCEPT !.States = <<>>], table |-> EmptyMap],
     [config |-> [SoundConfig EXCEPT !.Alphabet = <<>>], table |-> EmptyMap],
     [config |-> [SoundConfig EXCEPT !.InitialState = "B"], table |-> EmptyMap],
     [config |-> [SoundConfig EXCEPT !.FinalStates = <<"B">>], table |-> EmptyMap],
     [config |-> SoundConfig, table |-> AddTransition(EmptyMap, "B", "x", "A")],
     [config |-> SoundConfig, table |-> AddTransition(EmptyMap, "A", "y", "A")],
     [config |-> SoundConfig, table |-> AddTransition(EmptyMap, "A", "x", "B")]}

\* The configuration has the defect an error kind stands for.
KindNamesDefect(kind, config, table) ==
    LET declared == Range(config.States)
    IN CASE kind = "ErrNoStates" -> Len(config.States) = 0
         [] kind = "ErrNoAlphabet" -> Len(config.Alphabet) = 0
         [] kind = "ErrInvalidInitial" -> config.InitialState \notin declared
         [] kind = "ErrInvalidFinal" ->
               \E i \in DOMAIN config.FinalStates : config.FinalStates[i] \notin declared
         [] kind = "ErrInvalidInput" ->
               \E from \in DOMAIN table : \E input \in DOMAIN table[from] :
                   input \notin Range(config.Alphabet)
         [] kind = "ErrInvalidTransition" ->
               \/ \E from \in DOMAIN table : from \notin declared
               \/ \E from \in DOMAIN table : \E input \in DOMAIN table[from] :
                      table[from][input] \notin declared
         [] OTHER -> FALSE

\* Source and destination defects are told apart by the message only.
SameCondition(text1, text2) ==
    \/ text1 = text2
    \/ {text1, text2} = {"from state", "to state"}

\* C14 (as stated): each of the seven conditions has an error kind of its
\* own: whenever another configuration is rejected with the same kind, it is
\* rejected for the same condition.
C14_Original ==
    (last.op = "NewFSM" /\ Failed) =>
        \A d \in DefectCases : \A e \in ValidationErrors(d.config, d.table) :
            e[1] = last.err.kind => e[2] = last.err.text

\* C14 (amended): the error kind names a defect the configuration has, and
\* tells the conditions apart except that an undeclared source state and an
\* undeclared destination state share one kind.
C14_KindsNameConditions ==
    (last.op = "NewFSM" /\ Failed) =>
        /\ KindNamesDefect(last.err.kind, cfg, Deref(cfg.Transitions))
        /\ \A d \in DefectCases : \A e \in ValidationErrors(d.config, d.table) :
              e[1] = last.err.kind => SameCondition(e[2], last.err.text)

\* NewFSM rejected a configuration for a transition to an undeclared state.
C14_Witness ==
    /\ last.op = "NewFSM"
    /\ last.err.kind = "ErrInvalidTransition"
    /\ last.err.text = "to state"

\* What a string over {'0','1'} denotes as a binary number ("" denotes 0).
IsBinary(b) == \A i \in DOMAIN b : b[i] \in {Binary0, Binary1}

RECURSIVE BinaryValue(_)
BinaryValue(b) ==
    IF b = <<>> THEN 0
    ELSE 2 * BinaryValue(SubSeq(b, 1, Len(b) - 1)) + (b[Len(b)] - Binary0)

\* C15: for every string b over {'0','1'}, after any earlier calls,
\* ComputeModThree(b) returns (value of b mod 3, true) and
\* IsDivisibleByThree(b) returns true exactly when that remainder is 0.
C15_ModThreeResult ==
    IsBinary(last.binaryStr) =>
        /\ last.op = "ComputeModThree" =>
              (last.ok /\ last.remainder = BinaryValue(last.binaryStr) % 3)
        /\ last.op = "IsDivisibleByThree" =>
              (last.ok <=> BinaryValue(last.binaryStr) % 3 = 0)

\* ComputeModThree returned remainder 2 for "101" on a wrapper whose engine an
\* earlier call had left in state 1.
C15_Witness ==
    /\ last.op = "ComputeModThree"
    /\ last.binaryStr = <<Binary1, Binary0, Binary1>>
    /\ last.remainder = 2
    /\ pre.currentState = ModState1

\* C16: after ComputeModThree(b) or IsDivisibleByThree(b) for a string b over
\* {'0','1'}, in any sequence of calls, the engine's CurrentState() is the
\* value of b mod 3.
C16_Original ==
    (last.op \in {"ComputeModThree", "IsDivisibleByThree"}
        /\ IsBinary(last.binaryStr)) =>
        CurrentState(fsm) = BinaryValue(last.binaryStr) % 3

\* C17: on a string with a character outside {'0','1'} parsing fails before
\* the engine is run, having invoked no engine operation but the read-only
\* ValidateInput: IsDivisibleByThree returns false, ComputeModThree returns
\* (0, false), and the engine is exactly as it was.
C17_InvalidCharacterLeavesEngine ==
    (last.op \in {"ComputeModThree", "IsDivisibleByThree"}
        /\ ~IsBinary(last.binaryStr)) =>
        /\ ~last.ok
        /\ last.remainder = 0
        /\ last.calls \subseteq {"ValidateInput"}
        /\ fsm = pre

\* C17 as stated: the call fails without invoking any engine operation at
\* all, ValidateInput included.
C17_Original ==
    (last.op \in {"ComputeModThree", "IsDivisibleByThree"}
        /\ ~IsBinary(last.binaryStr)) =>
        /\ ~last.ok
        /\ last.remainder = 0
        /\ last.calls = {}
        /\ fsm = pre

\* ComputeModThree refused "102" on a wrapper whose engine an earlier call had
\* left in state 2 with a history of three states.
C17_Witness ==
    /\ last.op = "ComputeModThree"
    /\ last.binaryStr = <<Binary1, Binary0, 50>>
    /\ ~last.ok
    /\ pre.currentState = ModState2
    /\ Len(pre.stateHistory) = 3

\* C18: the top-level IsDivisibleByThree(b) is true exactly when the value
\* of the binary string b is divisible by 3.
C18_Original ==
    (last.op = "IsDivisibleByThree" /\ IsBinary(last.binaryStr)) =>
        (last.ok <=> BinaryValue(last.binaryStr) % 3 = 0)

\* C19: whenever an engine exists, after any sequence of Transition, Process,
\* Execute and Reset calls, succeeding or failing, the history is non-empty,
\* its first element is the initial state and its last element is the current
\* state.
C19_HistoryFrame ==
    Running =>
        /\ Len(fsm.stateHistory) >= 1
        /\ fsm.stateHistory[1] = fsm.config.InitialState
        /\ fsm.stateHistory[Len(fsm.stateHistory)] = fsm.currentState

\* A Process failed after applying a prefix that moved the engine away from
\* its initial state.
C19_Witness ==
    /\ last.op = "Process"
    /\ Failed
    /\ Len(fsm.stateHistory) > Len(pre.stateHistory)
    /\ fsm.currentState # fsm.config.InitialState

\* C20: in every run state of an engine built by NewFSM, a symbol that
\* ValidateInput refuses has no transition from any state, and Transition on
\* it fails with the no-transition error leaving the engine as it was.
C20_Original ==
    Running =>
        /\ \A s \in StateU : \A i \in InputU :
              ~ValidateInput(fsm, i) => ~HasEntry(EngineTable, s, i)
        /\ (last.op = "Transition" /\ ~ValidateInput(pre, last.input)) =>
              (last.err.kind = "ErrNoTransition" /\ fsm = pre)

\* C21: validating the same invalid configuration twice with NewFSM reports
\* the same error kind each time, also when the configuration has several
\* defects at once.
C21_Original ==
    [][(/\ last.op = "NewFSM" /\ Failed
        /\ last'.op = "NewFSM"
        /\ cfg' = cfg /\ heap' = heap)
          => last'.err.kind = last.err.kind]_vars

====
